---- MODULE Spec2Model ----
(***************************************************************************)
(* Model of the LCDS driver (src/peripheral/LCDS.rs): a stateless command  *)
(* encoder for a serial character LCD.  The only state the driver owns is  *)
(* the transport handle spi_module; every public operation validates its   *)
(* operands, builds byte buffers and hands them to send_bytes.             *)
(*                                                                         *)
(* The model records, for the most recent call, the operands, the value    *)
(* returned, and every buffer handed to send_bytes together with what the  *)
(* transport did with it.                                                  *)
(*                                                                         *)
(* The source text leaves two things to the build:                         *)
(*  - u8 arithmetic that overflows panics in a build with overflow checks  *)
(*    and wraps modulo 256 in one without; the operators below take the    *)
(*    profile as the parameter release and the actions choose it freely;   *)
(*  - write_string_at_pos declares `result` but ORs its range errors into  *)
(*    `bResult`, a name with no declaration.  Whether the two name one     *)
(*    variable is not settled by the text; the operator takes this as the  *)
(*    parameter shared and the action chooses it freely.                   *)
(* Names with no declaration and one evident referent (cmd for msg,        *)
(* send_bytes for self.send_bytes, a char literal for its byte) are read   *)
(* as that referent.                                                       *)
(***************************************************************************)
EXTENDS Integers, Sequences, FiniteSets

VARIABLES spi_module, op, arg, ret, sends, panicked

vars == <<spi_module, op, arg, ret, sends, panicked>>

(***************************************************************************)
(* Protocol constants.                                                     *)
(***************************************************************************)
ESC == 27
BRACKET == 91
SEMICOLON == 59
ZERO == 48
CHAR_X == 120
CHAR_A == 65
CURSOR_POS_CMD == 72
CURSOR_SAVE_CMD == 115
CURSOR_RSTR_CMD == 117
DISP_CLR_CMD == 106
ERASE_INLINE_CMD == 75
ERASE_FIELD_CMD == 78
LSCROLL_CMD == 64
RSCROLL_CMD == 65
RST_CMD == 42
DISP_EN_CMD == 101
DISP_MODE_CMD == 104
CURSOR_MODE_CMD == 99
TWI_SAVE_ADDR_CMD == 97
BR_SAVE_CMD == 98
PRG_CHAR_CMD == 112
SAVE_RAM_TO_EEPROM_CMD == 116
LD_EEPROM_TO_RAM_CMD == 108
DEF_CHAR_CMD == 100
COMM_MODE_SAVE_CMD == 109
EEPROM_WR_EN_CMD == 119
CURSOR_MODE_SAVE_CMD == 110
DISP_MODE_SAVE_CMD == 111

LCDS_ERR_SUCCESS == 0
LCDS_ERR_ARG_ROW_RANGE == 1
LCDS_ERR_ARG_COL_RANGE == 2
LCDS_ERR_ARG_ERASE_OPTIONS == 3
LCDS_ERR_ARG_BR_RANGE == 4
LCDS_ERR_ARG_TABLE_RANGE == 5
LCDS_ERR_ARG_COMM_RANGE == 6
LCDS_ERR_ARG_CRS_RANGE == 7
LCDS_ERR_ARG_DSP_RANGE == 8
LCDS_ERR_ARG_POS_RANGE == 9

\* Largest value of the operand type u8.
U8_MAX == 255
\* One-line character limit used by write_string_at_pos.
LINE_LIMIT == 40
\* Number of row bytes build_user_def_char consumes.
USER_DEF_ROWS == 8

(***************************************************************************)
(* Bounds of the inputs explored.                                          *)
(***************************************************************************)
MaxRowArg == 3
MaxColArg == 41
MaxTextLen == 3
MaxCharPosLen == 2
MaxCharNumber == 3
MaxUserDefLen == 9

Byte == 0..U8_MAX
RowArgs == (0..MaxRowArg) \cup {U8_MAX}
ColArgs == (0..MaxColArg) \cup {U8_MAX}

(***************************************************************************)
(* Sequence helpers.                                                       *)
(***************************************************************************)
Min(a, b) == IF a <= b THEN a ELSE b

RECURSIVE Flatten(_)
Flatten(ss) == IF ss = <<>> THEN <<>> ELSE Head(ss) \o Flatten(Tail(ss))

SeqsUpTo(S, n) == UNION {[1..k -> S] : k \in 0..n}

(***************************************************************************)
(* u8 arithmetic.                                                          *)
(***************************************************************************)
add_overflows(a, b) == a + b > U8_MAX
wrapping_add(a, b) == (a + b) % (U8_MAX + 1)
sub_overflows(a, b) == a < b
wrapping_sub(a, b) == (a - b) % (U8_MAX + 1)

(***************************************************************************)
(* Text.  A &str is a sequence of characters, each character its UTF-8     *)
(* encoding: len() counts bytes, chars().take(n) counts characters.        *)
(***************************************************************************)
CHAR_H == <<72>>
CHAR_E_ACUTE == <<195, 169>>
Chars == {CHAR_H, CHAR_E_ACUTE}
Texts == SeqsUpTo(Chars, MaxTextLen)

str_len(s) == Len(Flatten(s))
chars_take(s, n) == SubSeq(s, 1, Min(n, Len(s)))
as_bytes(s) == Flatten(s)

(***************************************************************************)
(* The outcome of a call before the transport acts: the code returned      *)
(* (<<>> when the function returns () or does not return), the buffers     *)
(* passed to send_bytes in order, and whether the call panicked.           *)
(***************************************************************************)
Outcome(r, b) == [ret |-> r, bufs |-> b, panic |-> FALSE]
Panic == [ret |-> <<>>, bufs |-> <<>>, panic |-> TRUE]

(***************************************************************************)
(* `|=` on u8 values.                                                      *)
(***************************************************************************)
RECURSIVE bit_or(_, _)
bit_or(a, b) ==
    IF a = 0 THEN b
    ELSE IF b = 0 THEN a
    ELSE 2 * bit_or(a \div 2, b \div 2) + (IF a % 2 = 1 \/ b % 2 = 1 THEN 1 ELSE 0)

(***************************************************************************)
(* format!("0x{:02X};", val)                                               *)
(***************************************************************************)
upper_hex_digit(d) == IF d < 10 THEN ZERO + d ELSE CHAR_A + (d - 10)
format_hex(val) ==
    <<ZERO, CHAR_X, upper_hex_digit(val \div 16), upper_hex_digit(val % 16), SEMICOLON>>

RECURSIVE build_user_def_char(_, _)
build_user_def_char(str_user_def, cmd_str) ==
    IF str_user_def = <<>> THEN cmd_str
    ELSE build_user_def_char(Tail(SubSeq(str_user_def, 1, Min(USER_DEF_ROWS, Len(str_user_def)))),
                             cmd_str \o format_hex(Head(str_user_def)))

(***************************************************************************)
(* Operations without a range check.                                       *)
(***************************************************************************)
display_set_call(set_display, set_bckl) ==
    LET msg == IF ~set_display /\ ~set_bckl THEN <<ESC, BRACKET, ZERO, DISP_EN_CMD>>
               ELSE IF set_display /\ ~set_bckl THEN <<ESC, BRACKET, ZERO + 1, DISP_EN_CMD>>
               ELSE IF ~set_display /\ set_bckl THEN <<ESC, BRACKET, ZERO + 2, DISP_EN_CMD>>
               ELSE <<ESC, BRACKET, ZERO + 3, DISP_EN_CMD>>
    IN  Outcome(<<>>, <<msg>>)

cursor_mode_set_call(set_cursor, set_blink) ==
    LET msg == IF ~set_cursor THEN <<ESC, BRACKET, ZERO, CURSOR_MODE_CMD>>
               ELSE IF ~set_blink THEN <<ESC, BRACKET, ZERO + 1, CURSOR_MODE_CMD>>
               ELSE <<ESC, BRACKET, ZERO + 2, CURSOR_MODE_CMD>>
    IN  Outcome(<<>>, <<msg>>)

display_clear_call == Outcome(<<>>, << <<ESC, BRACKET, DISP_CLR_CMD>> >>)

save_cursor_call == Outcome(<<>>, << <<ESC, BRACKET, ZERO, CURSOR_SAVE_CMD>> >>)

restore_cursor_call == Outcome(<<>>, << <<ESC, BRACKET, ZERO, CURSOR_RSTR_CMD>> >>)

display_mode_call(char_number) ==
    IF char_number
    THEN Outcome(<<>>, << <<ESC, BRACKET, ZERO, DISP_MODE_CMD>> >>)
    ELSE Outcome(<<>>, << <<ESC, BRACKET, ZERO + 1, DISP_MODE_CMD>> >>)

erase_chars_call(chars_number, release) ==
    IF add_overflows(chars_number, ZERO) /\ ~release
    THEN Panic
    ELSE Outcome(<<>>, << <<ESC, BRACKET, wrapping_add(chars_number, ZERO), ERASE_FIELD_CMD>> >>)

reset_call == Outcome(<<>>, << <<ESC, BRACKET, ZERO, RST_CMD>> >>)

save_twi_addr_call(addr_eeprom, release) ==
    IF add_overflows(addr_eeprom, ZERO) /\ ~release
    THEN Panic
    ELSE Outcome(<<>>, << <<ESC, BRACKET, wrapping_add(addr_eeprom, ZERO), TWI_SAVE_ADDR_CMD>> >>)

eeprom_wr_en_call == Outcome(<<>>, << <<ESC, BRACKET, ZERO, EEPROM_WR_EN_CMD>> >>)

(***************************************************************************)
(* Range-checked single-operand operations.                                *)
(***************************************************************************)
erase_in_line_call(erase_param) ==
    IF erase_param <= 2
    THEN Outcome(<<LCDS_ERR_SUCCESS>>, << <<ESC, BRACKET, erase_param + ZERO, ERASE_INLINE_CMD>> >>)
    ELSE Outcome(<<LCDS_ERR_ARG_ERASE_OPTIONS>>, <<>>)

\* save_br with its upper bound off by one.
save_br_call_bound_5(baud_rate) ==
    IF baud_rate < 6
    THEN Outcome(<<LCDS_ERR_SUCCESS>>, << <<ESC, BRACKET, baud_rate + ZERO, BR_SAVE_CMD>> >>)
    ELSE Outcome(<<LCDS_ERR_ARG_BR_RANGE>>, <<>>)

save_br_call(baud_rate) ==
    IF baud_rate <= 6
    THEN Outcome(<<LCDS_ERR_SUCCESS>>, << <<ESC, BRACKET, baud_rate + ZERO, BR_SAVE_CMD>> >>)
    ELSE Outcome(<<LCDS_ERR_ARG_BR_RANGE>>, <<>>)

chars_to_lcd_call(char_table) ==
    IF char_table <= 3
    THEN Outcome(<<LCDS_ERR_SUCCESS>>, << <<ESC, BRACKET, char_table + ZERO, PRG_CHAR_CMD>> >>)
    ELSE Outcome(<<LCDS_ERR_ARG_TABLE_RANGE>>, <<>>)

save_ram_to_eeprom_call(char_table) ==
    IF char_table <= 3
    THEN Outcome(<<LCDS_ERR_SUCCESS>>, << <<ESC, BRACKET, char_table + ZERO, SAVE_RAM_TO_EEPROM_CMD>> >>)
    ELSE Outcome(<<LCDS_ERR_ARG_TABLE_RANGE>>, <<>>)

ld_eeprom_to_ram_call(char_table) ==
    IF char_table <= 3
    THEN Outcome(<<LCDS_ERR_SUCCESS>>, << <<ESC, BRACKET, char_table + ZERO, LD_EEPROM_TO_RAM_CMD>> >>)
    ELSE Outcome(<<LCDS_ERR_ARG_TABLE_RANGE>>, <<>>)

save_comm_to_eeprom_call(comm_sel) ==
    IF comm_sel <= 2
    THEN Outcome(<<LCDS_ERR_SUCCESS>>, << <<ESC, BRACKET, comm_sel + ZERO, COMM_MODE_SAVE_CMD>> >>)
    ELSE Outcome(<<LCDS_ERR_ARG_COMM_RANGE>>, <<>>)

save_cursor_to_eeprom_call(mode_crs) ==
    IF mode_crs <= 2
    THEN Outcome(<<LCDS_ERR_SUCCESS>>, << <<ESC, BRACKET, mode_crs + ZERO, CURSOR_MODE_SAVE_CMD>> >>)
    ELSE Outcome(<<LCDS_ERR_ARG_CRS_RANGE>>, <<>>)

save_display_to_eeprom_call(mode_disp) ==
    IF mode_disp <= 1
    THEN Outcome(<<LCDS_ERR_SUCCESS>>, << <<ESC, BRACKET, mode_disp + ZERO, DISP_MODE_SAVE_CMD>> >>)
    ELSE Outcome(<<LCDS_ERR_ARG_DSP_RANGE>>, <<>>)

(***************************************************************************)
(* Positioning, text, scrolling and user-defined characters.               *)
(***************************************************************************)
set_pos_call(idx_row, idx_col) ==
    LET r1 == IF idx_row > 2 THEN bit_or(LCDS_ERR_SUCCESS, LCDS_ERR_ARG_ROW_RANGE)
              ELSE LCDS_ERR_SUCCESS
        bresult == IF idx_col > 39 THEN bit_or(r1, LCDS_ERR_ARG_COL_RANGE) ELSE r1
        first_digit == idx_col % 10
        second_digit == idx_col \div 10
        str_to_send == <<ESC, BRACKET, idx_row + ZERO, SEMICOLON,
                         second_digit + ZERO, first_digit + ZERO, CURSOR_POS_CMD>>
    IN  IF bresult = LCDS_ERR_SUCCESS
        THEN Outcome(<<bresult>>, <<str_to_send>>)
        ELSE Outcome(<<bresult>>, <<>>)

\* shared: `bResult` and `result` name one variable.  Otherwise the range
\* errors go to bResult and result keeps its initial value.
write_string_at_pos_call(idx_row, idx_col, str_ln, shared, release) ==
    LET b1 == IF idx_row > 2 THEN bit_or(LCDS_ERR_SUCCESS, LCDS_ERR_ARG_ROW_RANGE)
              ELSE LCDS_ERR_SUCCESS
        bResult == IF idx_col > 39 THEN bit_or(b1, LCDS_ERR_ARG_ROW_RANGE) ELSE b1
        result == IF shared THEN bResult ELSE LCDS_ERR_SUCCESS
        second_digit == idx_col \div 10
        length_to_print == str_len(str_ln) + idx_col
        string_to_send == <<ESC, BRACKET, wrapping_add(idx_row, ZERO), SEMICOLON,
                            second_digit + ZERO, CURSOR_POS_CMD>>
        length == IF length_to_print > LINE_LIMIT
                  THEN wrapping_sub(LINE_LIMIT, idx_col)
                  ELSE str_len(str_ln)
        bytes_to_send == as_bytes(chars_take(str_ln, length))
    IN  IF result = LCDS_ERR_SUCCESS
        THEN IF ~release /\ (add_overflows(idx_row, ZERO)
                             \/ (length_to_print > LINE_LIMIT /\ sub_overflows(LINE_LIMIT, idx_col)))
             THEN Panic
             ELSE Outcome(<<result>>, <<string_to_send, bytes_to_send>>)
        ELSE Outcome(<<result>>, <<>>)

display_scroll_call(direction, idx_col) ==
    LET first_digit == idx_col % 10
        second_digit == idx_col \div 10
        r_scroll == <<ESC, BRACKET, second_digit + ZERO, first_digit + ZERO, RSCROLL_CMD>>
        l_scroll == <<ESC, BRACKET, second_digit + ZERO, first_digit + ZERO, LSCROLL_CMD>>
    IN  IF idx_col <= 39
        THEN Outcome(<<LCDS_ERR_SUCCESS>>,
                     display_mode_call(TRUE).bufs
                       \o (IF direction THEN <<r_scroll>> ELSE <<l_scroll>>))
        ELSE Outcome(<<LCDS_ERR_ARG_COL_RANGE>>, <<>>)

define_user_char_call(str_user_def, char_pos) ==
    IF char_pos > 7
    THEN Outcome(<<LCDS_ERR_ARG_POS_RANGE>>, <<>>)
    ELSE LET cmd == build_user_def_char(str_user_def, <<ESC, BRACKET, 0>>)
                      \o <<char_pos + ZERO, DEF_CHAR_CMD>>
                      \o <<ESC, BRACKET, ZERO + 3, PRG_CHAR_CMD>>
         IN  Outcome(<<LCDS_ERR_SUCCESS>>, <<cmd>>)

disp_user_char_call(char_pos, char_number, idx_row, idx_col) ==
    LET r1 == IF idx_row > 2 THEN bit_or(LCDS_ERR_SUCCESS, LCDS_ERR_ARG_ROW_RANGE)
              ELSE LCDS_ERR_SUCCESS
        bresult == IF idx_col > 39 THEN bit_or(r1, LCDS_ERR_ARG_COL_RANGE) ELSE r1
        to_send == SubSeq(char_pos, 1, Min(char_number, Len(char_pos)))
    IN  IF bresult = LCDS_ERR_SUCCESS
        THEN Outcome(<<bresult>>, set_pos_call(idx_row, idx_col).bufs \o <<to_send>>)
        ELSE Outcome(<<bresult>>, <<>>)

(***************************************************************************)
(* Inputs explored for the slice operands.                                 *)
(***************************************************************************)
RowBytes == {0, 31, 165, U8_MAX}
UserDefs ==
    {[i \in 1..n |-> IF i % 2 = 1 THEN a ELSE b] :
        a \in RowBytes, b \in RowBytes, n \in (MaxUserDefLen - 2)..MaxUserDefLen}
CharPosArgs == SeqsUpTo({0, 7}, MaxCharPosLen)

(***************************************************************************)
(* Transport.  send_bytes writes the buffer when the handle is present;    *)
(* the write succeeds or fails, and either way send_bytes returns ().      *)
(***************************************************************************)
send_bytes(spi, write_ok) ==
    IF spi = "Some"
    THEN IF write_ok THEN "sent" ELSE "write_failed"
    ELSE "not_initialized"

NoArg == [row |-> 0, col |-> 0, val |-> 0, flag |-> FALSE, flag2 |-> FALSE,
          str |-> <<>>, data |-> <<>>]

\* One call: the operation runs to its end, each send_bytes meeting a
\* transport write that succeeds or fails.  The driver is synchronous: a
\* call starts only when no other call is being observed.
Idle == op = "none"

Invoke(name, a, out) ==
    /\ Idle
    /\ \E write_ok \in [1..Len(out.bufs) -> BOOLEAN] :
        /\ op' = name
        /\ arg' = a
        /\ ret' = out.ret
        /\ panicked' = out.panic
        /\ sends' = [i \in 1..Len(out.bufs) |->
                        [bytes |-> out.bufs[i],
                         result |-> send_bytes(spi_module, write_ok[i])]]
        /\ UNCHANGED spi_module

Init ==
    /\ spi_module = "None"
    /\ op = "none"
    /\ arg = NoArg
    /\ ret = <<>>
    /\ sends = <<>>
    /\ panicked = FALSE

begin ==
    /\ Idle
    /\ \E acquired \in BOOLEAN :
           /\ spi_module' = IF acquired THEN "Some" ELSE "None"
           /\ op' = "begin"
           /\ arg' = [NoArg EXCEPT !.flag = acquired]
           /\ ret' = <<>>
           /\ sends' = <<>>
           /\ panicked' = FALSE

display_set ==
    /\ Idle
    /\ \E set_display \in BOOLEAN, set_bckl \in BOOLEAN :
           Invoke("display_set", [NoArg EXCEPT !.flag = set_display, !.flag2 = set_bckl],
                  display_set_call(set_display, set_bckl))

cursor_mode_set ==
    /\ Idle
    /\ \E set_cursor \in BOOLEAN, set_blink \in BOOLEAN :
           Invoke("cursor_mode_set", [NoArg EXCEPT !.flag = set_cursor, !.flag2 = set_blink],
                  cursor_mode_set_call(set_cursor, set_blink))

display_clear == Invoke("display_clear", NoArg, display_clear_call)

write_string_at_pos ==
    /\ Idle
    /\ \E idx_row \in RowArgs, idx_col \in ColArgs, str_ln \in Texts,
          shared \in BOOLEAN, release \in BOOLEAN :
           Invoke("write_string_at_pos",
                  [NoArg EXCEPT !.row = idx_row, !.col = idx_col, !.str = str_ln],
                  write_string_at_pos_call(idx_row, idx_col, str_ln, shared, release))

display_scroll ==
    /\ Idle
    /\ \E direction \in BOOLEAN, idx_col \in Byte :
           Invoke("display_scroll", [NoArg EXCEPT !.flag = direction, !.val = idx_col],
                  display_scroll_call(direction, idx_col))

save_cursor == Invoke("save_cursor", NoArg, save_cursor_call)

restore_cursor == Invoke("restore_cursor", NoArg, restore_cursor_call)

display_mode ==
    /\ Idle
    /\ \E char_number \in BOOLEAN :
           Invoke("display_mode", [NoArg EXCEPT !.flag = char_number],
                  display_mode_call(char_number))

erase_in_line ==
    /\ Idle
    /\ \E erase_param \in Byte :
           Invoke("erase_in_line", [NoArg EXCEPT !.val = erase_param],
                  erase_in_line_call(erase_param))

erase_chars ==
    /\ Idle
    /\ \E chars_number \in Byte, release \in BOOLEAN :
           Invoke("erase_chars", [NoArg EXCEPT !.val = chars_number],
                  erase_chars_call(chars_number, release))

reset == Invoke("reset", NoArg, reset_call)

save_twi_addr ==
    /\ Idle
    /\ \E addr_eeprom \in Byte, release \in BOOLEAN :
           Invoke("save_twi_addr", [NoArg EXCEPT !.val = addr_eeprom],
                  save_twi_addr_call(addr_eeprom, release))

save_br ==
    /\ Idle
    /\ \E baud_rate \in Byte :
           Invoke("save_br", [NoArg EXCEPT !.val = baud_rate], save_br_call(baud_rate))

chars_to_lcd ==
    /\ Idle
    /\ \E char_table \in Byte :
           Invoke("chars_to_lcd", [NoArg EXCEPT !.val = char_table],
                  chars_to_lcd_call(char_table))

save_ram_to_eeprom ==
    /\ Idle
    /\ \E char_table \in Byte :
           Invoke("save_ram_to_eeprom", [NoArg EXCEPT !.val = char_table],
                  save_ram_to_eeprom_call(char_table))

ld_eeprom_to_ram ==
    /\ Idle
    /\ \E char_table \in Byte :
           Invoke("ld_eeprom_to_ram", [NoArg EXCEPT !.val = char_table],
                  ld_eeprom_to_ram_call(char_table))

save_comm_to_eeprom ==
    /\ Idle
    /\ \E comm_sel \in Byte :
           Invoke("save_comm_to_eeprom", [NoArg EXCEPT !.val = comm_sel],
                  save_comm_to_eeprom_call(comm_sel))

eeprom_wr_en == Invoke("eeprom_wr_en", NoArg, eeprom_wr_en_call)

save_cursor_to_eeprom ==
    /\ Idle
    /\ \E mode_crs \in Byte :
           Invoke("save_cursor_to_eeprom", [NoArg EXCEPT !.val = mode_crs],
                  save_cursor_to_eeprom_call(mode_crs))

save_display_to_eeprom ==
    /\ Idle
    /\ \E mode_disp \in Byte :
           Invoke("save_display_to_eeprom", [NoArg EXCEPT !.val = mode_disp],
                  save_display_to_eeprom_call(mode_disp))

define_user_char ==
    /\ Idle
    /\ \E str_user_def \in UserDefs, char_pos \in Byte :
           Invoke("define_user_char", [NoArg EXCEPT !.data = str_user_def, !.val = char_pos],
                  define_user_char_call(str_user_def, char_pos))

disp_user_char ==
    /\ Idle
    /\ \E char_pos \in CharPosArgs, char_number \in 0..MaxCharNumber,
          idx_row \in RowArgs, idx_col \in ColArgs :
           Invoke("disp_user_char",
                  [NoArg EXCEPT !.data = char_pos, !.val = char_number,
                                !.row = idx_row, !.col = idx_col],
                  disp_user_char_call(char_pos, char_number, idx_row, idx_col))

set_pos ==
    /\ Idle
    /\ \E idx_row \in RowArgs, idx_col \in ColArgs :
           Invoke("set_pos", [NoArg EXCEPT !.row = idx_row, !.col = idx_col],
                  set_pos_call(idx_row, idx_col))

\* The call has returned; nothing of it is retained by the driver, whose
\* only field is spi_module.
return_to_caller ==
    /\ op # "none"
    /\ op' = "none"
    /\ arg' = NoArg
    /\ ret' = <<>>
    /\ sends' = <<>>
    /\ panicked' = FALSE
    /\ UNCHANGED spi_module

Next ==
    \/ return_to_caller
    \/ begin
    \/ set_pos
    \/ display_set
    \/ cursor_mode_set
    \/ display_clear
    \/ write_string_at_pos
    \/ display_scroll
    \/ save_cursor
    \/ restore_cursor
    \/ display_mode
    \/ erase_in_line
    \/ erase_chars
    \/ reset
    \/ save_twi_addr
    \/ save_br
    \/ chars_to_lcd
    \/ save_ram_to_eeprom
    \/ ld_eeprom_to_ram
    \/ save_comm_to_eeprom
    \/ eeprom_wr_en
    \/ save_cursor_to_eeprom
    \/ save_display_to_eeprom
    \/ define_user_char
    \/ disp_user_char

Spec == Init /\ [][Next]_vars

TypeOK ==
    /\ spi_module \in {"None", "Some"}
    /\ panicked \in BOOLEAN
    /\ Len(ret) <= 1
    /\ \A i \in 1..Len(sends) :
          /\ sends[i].result \in {"sent", "write_failed", "not_initialized"}
          /\ \A j \in 1..Len(sends[i].bytes) : sends[i].bytes[j] \in Byte

(***************************************************************************)
(* Vocabulary of the properties.                                           *)
(***************************************************************************)
\* The buffers handed to send_bytes by the observed call, in order.
Handed == [i \in 1..Len(sends) |-> sends[i].bytes]

\* The buffers of the observed call that the transport wrote.
Written == SelectSeq(sends, LAMBDA s : s.result = "sent")

PositionOps == {"set_pos", "write_string_at_pos", "disp_user_char"}

SingleOperandOps ==
    {"display_scroll", "erase_in_line", "save_br", "chars_to_lcd", "save_ram_to_eeprom",
     "ld_eeprom_to_ram", "save_comm_to_eeprom", "save_cursor_to_eeprom",
     "save_display_to_eeprom", "define_user_char"}

\* Section 4.2 of the specification: upper bound and error of each operand.
DomainMax(o) ==
    CASE o = "display_scroll" -> 39
      [] o = "erase_in_line" -> 2
      [] o = "save_br" -> 6
      [] o \in {"chars_to_lcd", "save_ram_to_eeprom", "ld_eeprom_to_ram"} -> 3
      [] o = "save_comm_to_eeprom" -> 2
      [] o = "save_cursor_to_eeprom" -> 2
      [] o = "save_display_to_eeprom" -> 1
      [] o = "define_user_char" -> 7

DomainError(o) ==
    CASE o = "display_scroll" -> 2
      [] o = "erase_in_line" -> 3
      [] o = "save_br" -> 4
      [] o \in {"chars_to_lcd", "save_ram_to_eeprom", "ld_eeprom_to_ram"} -> 5
      [] o = "save_comm_to_eeprom" -> 6
      [] o = "save_cursor_to_eeprom" -> 7
      [] o = "save_display_to_eeprom" -> 8
      [] o = "define_user_char" -> 9

\* Section 6 of the specification: the opcode byte of each operation.
Opcode(o) ==
    CASE o = "display_scroll" -> IF arg.flag THEN 65 ELSE 64
      [] o = "erase_in_line" -> 75
      [] o = "save_br" -> 98
      [] o = "chars_to_lcd" -> 112
      [] o = "save_ram_to_eeprom" -> 116
      [] o = "ld_eeprom_to_ram" -> 108
      [] o = "save_comm_to_eeprom" -> 109
      [] o = "save_cursor_to_eeprom" -> 110
      [] o = "save_display_to_eeprom" -> 111
      [] o = "define_user_char" -> 100

OperandsValid ==
    IF op \in PositionOps THEN arg.row <= 2 /\ arg.col <= 39
    ELSE arg.val <= DomainMax(op)

Digits == 48..57

\* ESC '[' row ';' tens ones 'H'
PositionSequence(row, col) ==
    <<27, 91, 48 + row, 59, 48 + (col \div 10), 48 + (col % 10), 72>>

IsPrefix(p, s) == Len(p) <= Len(s) /\ SubSeq(s, 1, Len(p)) = p

(***************************************************************************)
(* C1.  An operation with a declared operand domain hands nothing to the   *)
(* transport when one of its operands is outside its domain.               *)
(***************************************************************************)
C1_InvalidOperandSendsNothing ==
    (op \in PositionOps \cup SingleOperandOps /\ ~OperandsValid) => sends = <<>>

(***************************************************************************)
(* C2.  set_pos, write_string_at_pos and disp_user_char return RowRange    *)
(* when row > 2 whatever col is, ColumnRange when row <= 2 and col > 39,   *)
(* and success otherwise.                                                  *)
(***************************************************************************)
C2_RowBeforeColumn ==
    op \in PositionOps =>
        ret = << IF arg.row > 2 THEN 1 ELSE IF arg.col > 39 THEN 2 ELSE 0 >>

(***************************************************************************)
(* C3.  With row in 0..2 and col in 0..39, set_pos emits exactly the       *)
(* sequence ESC '[' row ';' tens ones 'H', write_string_at_pos emits the   *)
(* same sequence before its text, and both return success.                 *)
(***************************************************************************)
C3_PositionSequence ==
    (op \in {"set_pos", "write_string_at_pos"} /\ arg.row <= 2 /\ arg.col <= 39) =>
        /\ ret = <<0>>
        /\ Len(sends) >= 1
        /\ sends[1].bytes = PositionSequence(arg.row, arg.col)
        /\ op = "set_pos" => Len(sends) = 1

(***************************************************************************)
(* C4.  With row in 0..2 and col in 0..39, write_string_at_pos returns     *)
(* success and the text bytes it sends are a prefix of the text of length  *)
(* L, where L is the text length when col + length <= 40 and 40 - col      *)
(* otherwise, so that col + L <= 40.                                       *)
(***************************************************************************)
C4_TextTruncatedToLine ==
    (op = "write_string_at_pos" /\ arg.row <= 2 /\ arg.col <= 39) =>
        /\ ret = <<0>>
        /\ Len(sends) = 2
        /\ LET text == Flatten(arg.str)
               sent == sends[2].bytes
           IN  /\ IsPrefix(sent, text)
               /\ Len(sent) = IF arg.col + Len(text) <= 40 THEN Len(text) ELSE 40 - arg.col
               /\ arg.col + Len(sent) <= 40

(***************************************************************************)
(* C5.  When a transport write did not happen or failed, the call does not *)
(* return the success code, and it returns without a panic.                *)
(***************************************************************************)
C5_FailureNotReportedAsSuccess ==
    (\E i \in 1..Len(sends) : sends[i].result # "sent") =>
        ret # <<0>> /\ ~panicked

(***************************************************************************)
(* C6.  For slot in 0..7 and eight row bytes, define_user_char hands the   *)
(* transport exactly ESC '[', the eight tokens '0' 'x' hi lo ';' in row    *)
(* order, the slot digit, 'd', ESC '[' '3' 'p', and returns success.       *)
(***************************************************************************)
HexChars == <<48, 49, 50, 51, 52, 53, 54, 55, 56, 57, 65, 66, 67, 68, 69, 70>>

HexToken(b) == <<48, 120, HexChars[(b \div 16) + 1], HexChars[(b % 16) + 1], 59>>

C6_DefineUserCharBytes ==
    (op = "define_user_char" /\ arg.val <= 7 /\ Len(arg.data) = 8) =>
        /\ ret = <<0>>
        /\ Handed = << <<27, 91>>
                        \o Flatten([i \in 1..8 |-> HexToken(arg.data[i])])
                        \o <<48 + arg.val, 100, 27, 91, 51, 112>> >>

(***************************************************************************)
(* C7.  As claimed: each single-operand validated operation returns        *)
(* success when the operand is within its bound and the error of the       *)
(* table otherwise, and on success the single emitted sequence is          *)
(* ESC '[' (v + '0') opcode.                                               *)
(***************************************************************************)
C7_SingleSequenceForAll ==
    op \in SingleOperandOps =>
        IF arg.val <= DomainMax(op)
        THEN ret = <<0>> /\ Handed = << <<27, 91, 48 + arg.val, Opcode(op)>> >>
        ELSE ret = <<DomainError(op)>>

(***************************************************************************)
(* C7, amended.  The return codes are as claimed for all ten operations;   *)
(* the single sequence ESC '[' (v + '0') opcode is what the eight          *)
(* operations other than display_scroll and define_user_char emit.         *)
(***************************************************************************)
C7_CodesAndSingleSequence ==
    op \in SingleOperandOps =>
        IF arg.val <= DomainMax(op)
        THEN /\ ret = <<0>>
             /\ op \notin {"display_scroll", "define_user_char"} =>
                    Handed = << <<27, 91, 48 + arg.val, Opcode(op)>> >>
        ELSE ret = <<DomainError(op)>>

\* save_br at the first value outside its domain.
C7_Witness ==
    /\ op = "save_br"
    /\ arg.val = 7
    /\ ret = <<4>>
    /\ sends = <<>>

(***************************************************************************)
(* C8.  display_scroll with an amount in 0..39 puts a complete wrap-width  *)
(* sequence ESC '[' digit 'h' on the wire first and only then the scroll   *)
(* sequence ESC '[' tens ones ('A' right, '@' left): the two are handed    *)
(* over in that order, and what the transport wrote of the call is both    *)
(* sequences in that order or nothing, never one without the other.        *)
(* display_mode issues the wrap-width sequence ahead of anything else.     *)
(***************************************************************************)
IsWrapWidth(b) == Len(b) = 4 /\ b[1] = 27 /\ b[2] = 91 /\ b[3] \in Digits /\ b[4] = 104

ScrollSequence(right, amount) ==
    <<27, 91, 48 + (amount \div 10), 48 + (amount % 10), IF right THEN 65 ELSE 64>>

C8_WrapWidthBeforeScroll ==
    /\ (op = "display_scroll" /\ arg.val <= 39) =>
          /\ Len(sends) = 2
          /\ IsWrapWidth(sends[1].bytes)
          /\ sends[2].bytes = ScrollSequence(arg.flag, arg.val)
          /\ \/ Written = <<>>
             \/ /\ Len(Written) = 2
                /\ IsWrapWidth(Written[1].bytes)
                /\ Written[2].bytes = ScrollSequence(arg.flag, arg.val)
    /\ op = "display_mode" => Len(sends) >= 1 /\ IsWrapWidth(sends[1].bytes)

(***************************************************************************)
(* C9.  Every public operation performs at most one write on the           *)
(* transport per call.                                                     *)
(***************************************************************************)
WriteAttempts == SelectSeq(sends, LAMBDA s : s.result # "not_initialized")

C9_AtMostOneWrite == Len(WriteAttempts) <= 1

(***************************************************************************)
(* C10.  In every escape sequence an operation emits for operands it       *)
(* accepts, each numeric parameter byte is an ASCII digit and value + '0'  *)
(* does not overflow; erase_chars and save_twi_addr, which accept every    *)
(* value, included.                                                        *)
(***************************************************************************)
ParametersAreDigits(b) ==
    /\ Len(b) >= 3
    /\ b[1] = 27
    /\ b[2] = 91
    /\ \A j \in 3..(Len(b) - 1) : b[j] \in Digits \cup {59}

C10_ParametersAreDigits ==
    (op \in PositionOps \cup SingleOperandOps => OperandsValid) =>
        /\ ~panicked
        /\ op \notin {"none", "begin", "define_user_char"} =>
              \A i \in 1..Len(sends) :
                  (i = 1 \/ op \notin {"write_string_at_pos", "disp_user_char"}) =>
                      ParametersAreDigits(sends[i].bytes)

====
